---- MODULE Spec2Model ----
(***************************************************************************)
(* ledcat: the frame pipeline of src/main.rs (main, pipe_frame,            *)
(* transposition_table) and the Art-Net discovery routine                  *)
(* (artnet_discover), as state machines.                                   *)
(*                                                                         *)
(* Spec      - main(): open the output, build the transposition table,     *)
(*             open the input, then run pipe_frame once or in a loop.      *)
(* SpecTable - transposition_table as a function of its two arguments.     *)
(* SpecDim   - the dim arithmetic of pipe_frame on one channel.            *)
(* SpecDisc  - artnet_discover and its progress-indicator thread.          *)
(* SpecDiscFair - SpecDisc with weak fairness of both threads.             *)
(* SpecMux   - the input multiplexer in Single consume mode.               *)
(* SpecAll   - the input multiplexer in All consume mode.                  *)
(***************************************************************************)
EXTENDS Integers, Sequences, FiniteSets, TLC

VARIABLES
    \* ---- main(): configuration taken from the command line
    dimensions,        \* geometry::Dimensions
    transpose,         \* the --transpose operations, in order
    dim,               \* u8 brightness factor
    color_correction,  \* the Correction variant in use
    frame_interval,    \* Option<Duration>: NoInterval or a number of time units
    single_frame,      \* --one
    \* ---- main(): progress
    pc,                \* position of the main thread
    exit,              \* why main returned ("" while running)
    output_open,       \* the output sink has been opened
    input_open,        \* select::Reader::from_files has been called
    transposition,     \* Result<Vec<usize>, String> of transposition_table
    ticks,             \* number of pipe_frame calls started
    sleeps,            \* number of thread::sleep calls of the loop
    elapsed,           \* start.elapsed() of the latest tick (NoElapsed if not taken)
    last_sleep,        \* duration of the sleep after the latest tick (NoSleep if none)
    last_result,       \* result of the latest pipe_frame call: "none", "ok",
                       \* "read_error", "write_error" or "flush_error"
    \* ---- pipe_frame: locals of the running call
    i,                 \* loop index
    buffer,            \* Vec<Pixel>, indexed from 0
    frame_in,          \* the pixels read by this call so far, in input order
    \* ---- the input stream and the device sink
    consumed,          \* pixels consumed from the input since it was opened
    tick_writes,       \* write_frame calls of this tick
    tick_flushes,      \* flush calls of this tick
    written,           \* the buffer given to the latest write_frame
    written_at,        \* the value of i when write_frame was called
    frames_out,        \* frames the sink accepted and flushed
    \* ---- transposition_table as a function (SpecTable)
    t_dimensions, t_operations, t_result, t_pc,
    \* ---- the dim arithmetic (SpecDim)
    d_channel, d_dim, d_result, d_pc,
    \* ---- artnet_discover (SpecDisc)
    a_pc,              \* position of the scanning thread
    s_pc,              \* position of the indicator thread
    chan,              \* the rendezvous channel: "empty" | "offered" | "taken"
    tx_alive,          \* close_tx has not been dropped
    discovered,        \* HashSet<SocketAddr>
    printed,           \* addresses printed, in order
    replies,           \* number of items the discovery stream has yielded
    spinner,           \* index of the next spinner character
    late_spin,         \* a spinner character was written after artnet_discover returned
    a_result,          \* "none" | "ok" | "err"
    \* ---- select::Reader, Single consume mode (SpecMux)
    m_n,               \* number of inputs
    m_eof,             \* WhenEOF: "Retry" | "Close"
    m_avail,           \* per input: RGB24 triples written to it and not yet read
    m_made,            \* per input: triples written to it so far
    m_cursor,          \* the current input; m_n + 1 when all are closed
    m_pc,              \* "idle" | "reading"
    m_calls,           \* reads asked of the multiplexer
    m_result,          \* result of the latest read: "none" | "data" | "exhausted"
    m_log,             \* the inputs the delivered triples came from, in order
    m_saw_eof,         \* per input: it has reported end-of-stream
    m_late_read,       \* an input was read after exhaustion had been reported
    m_after_eof,       \* a triple was delivered by an input that had reported EOF
    \* ---- select::Reader, All consume mode (SpecAll)
    q_n,               \* number of inputs
    q_left,            \* per input: frames its source still holds
    q_count,           \* per input: frames its reader has published
    q_slot,            \* per input: the slot, [seq, stamp, frame], seq 0 when empty
    q_clock,           \* publishes so far, over all inputs
    q_since,           \* per input: publishes since the latest sample
    q_samples,         \* samples taken by the pipeline thread
    q_sample,          \* the latest sample: [input, seq, frame], input 0 for no data
    q_dropped          \* the latest sample passed over an overwritten frame

mainVars == <<dimensions, transpose, dim, color_correction, frame_interval,
              single_frame, pc, exit, output_open, input_open, transposition,
              ticks, sleeps, elapsed, last_sleep, last_result, i, buffer,
              frame_in, consumed, tick_writes, tick_flushes, written, written_at,
              frames_out>>
tableVars == <<t_dimensions, t_operations, t_result, t_pc>>
dimVars == <<d_channel, d_dim, d_result, d_pc>>
discVars == <<a_pc, s_pc, chan, tx_alive, discovered, printed, replies,
              spinner, late_spin, a_result>>
muxVars == <<m_n, m_eof, m_avail, m_made, m_cursor, m_pc, m_calls, m_result,
             m_log, m_saw_eof, m_late_read, m_after_eof>>
allVars == <<q_n, q_left, q_count, q_slot, q_clock, q_since, q_samples,
             q_sample, q_dropped>>
vars == <<mainVars, tableVars, dimVars, discVars, muxVars, allVars>>

----------------------------------------------------------------------------
(* Bounds of the model *)

MaxPixels == 4      \* largest --num-pixels
MaxSide == 2        \* largest width and height of --geometry
MaxChain == 2       \* longest --transpose chain
MaxInput == 9       \* pixels the input can deliver before it ends
MaxInterval == 2    \* largest frame interval, in time units
MaxElapsed == 3     \* largest time one tick can take, in time units
TMaxPixels == 6     \* SpecTable: largest 1-D size
TMaxSide == 4       \* SpecTable: largest width and height
TMaxChain == 3      \* SpecTable: longest chain
MaxReplies == 3     \* SpecDisc: replies the discovery stream yields at most
MaxInputs == 2      \* SpecMux, SpecAll: most --input files
MaxSupply == 2      \* SpecMux: triples written to one input; SpecAll: frames of one source
MaxCalls == 5       \* SpecMux: reads asked of the multiplexer
MaxSamples == 3     \* SpecAll: samples the pipeline takes

(* Program constants *)

U8Max == 255        \* 0xff, the divisor of the dim computation
U16Mod == 65536     \* width of the u16 intermediate
U8Mod == 256        \* width of the u8 result
SpinnerChars == 4   \* the characters of the spinner

----------------------------------------------------------------------------
(* Geometry: Dimensions and the transpositions (module input::geometry)     *)

One(n) == [kind |-> "One", w |-> n, h |-> 1]
Two(x, y) == [kind |-> "Two", w |-> x, h |-> y]

\* Dimensions::size(): the pixel count, width * height in the 2-D case
size(d) == IF d.kind = "Two" THEN d.w * d.h ELSE d.w

Reverse(length) ==
    [type |-> "Reverse", length |-> length, width |-> 0, height |-> 0, major_axis |-> "-"]
Zigzag(width, height, major_axis) ==
    [type |-> "Zigzag", length |-> 0, width |-> width, height |-> height,
     major_axis |-> major_axis]

\* Reverse::transpose: destination = size() - 1 - index
ReverseTranspose(t, index) == t.length - 1 - index

\* Zigzag::transpose: the index is taken apart in (row, col); with major axis
\* X every other row runs right-to-left, with major axis Y every other
\* column runs bottom-to-top
ZigzagTranspose(t, index) ==
    LET col == index % t.width
        row == index \div t.width
    IN IF t.major_axis = "X"
       THEN IF row % 2 = 1 THEN row * t.width + (t.width - 1 - col) ELSE index
       ELSE IF col % 2 = 1 THEN (t.height - 1 - row) * t.width + col ELSE index

Transpose(t, index) ==
    IF t.type = "Reverse" THEN ReverseTranspose(t, index) ELSE ZigzagTranspose(t, index)

\* Vec<Box<Transposition>>::transpose: the transforms are applied in the order
\* given, the destination of one being the source of the next
RECURSIVE TransposeAll(_, _)
TransposeAll(ts, index) ==
    IF ts = <<>> THEN index
    ELSE TransposeAll(Tail(ts), Transpose(Head(ts), index))

----------------------------------------------------------------------------
(* transposition_table (main.rs 386-414)                                   *)

ZigzagError == "Zigzag requires 2D geometry to be specified"
UnknownError == "Unknown transposition"
NoTable == [index \in {} |-> 0]

Ok(v) == [ok |-> TRUE, v |-> v, err |-> ""]
Err(e) == [ok |-> FALSE, v |-> NoTable, err |-> e]

\* as NamedTransposition, but a zigzag on 1-D dimensions is taken as a grid of
\* one row
NamedTranspositionLenient(d, name) ==
    IF name = "reverse" THEN [ok |-> TRUE, t |-> Reverse(size(d)), err |-> ""]
    ELSE IF name \in {"zigzag_x", "zigzag_y"}
    THEN [ok |-> TRUE,
          t |-> Zigzag(d.w, d.h, IF name = "zigzag_x" THEN "X" ELSE "Y"),
          err |-> ""]
    ELSE [ok |-> FALSE, t |-> Reverse(0), err |-> UnknownError]

\* the closure mapped over the operations: one name to one transposition
NamedTransposition(d, name) ==
    IF name = "reverse" THEN [ok |-> TRUE, t |-> Reverse(size(d)), err |-> ""]
    ELSE IF name \in {"zigzag_x", "zigzag_y"}
    THEN IF d.kind = "Two"
         THEN [ok |-> TRUE,
               t |-> Zigzag(d.w, d.h, IF name = "zigzag_x" THEN "X" ELSE "Y"),
               err |-> ""]
         ELSE [ok |-> FALSE, t |-> Reverse(0), err |-> ZigzagError]
    ELSE [ok |-> FALSE, t |-> Reverse(0), err |-> UnknownError]

\* collect() into a Result: the transpositions in order, or the first error
RECURSIVE CollectTranspositions(_, _)
CollectTranspositions(d, operations) ==
    IF operations = <<>> THEN [ok |-> TRUE, ts |-> <<>>, err |-> ""]
    ELSE LET first == NamedTransposition(d, Head(operations))
         IN IF ~first.ok THEN [ok |-> FALSE, ts |-> <<>>, err |-> first.err]
            ELSE LET rest == CollectTranspositions(d, Tail(operations))
                 IN IF ~rest.ok THEN rest
                    ELSE [ok |-> TRUE, ts |-> <<first.t>> \o rest.ts, err |-> ""]

\* as TableRange, but with the upper end included
TableRangeInclusive(d) == 0 .. size(d)

\* the index range the table is built over: 0..dimensions.size()
TableRange(d) == 0 .. (size(d) - 1)

\* as transposition_table, but only the first transposition is applied
transposition_table_first_only(d, operations) ==
    LET transpositions == CollectTranspositions(d, operations)
    IN IF ~transpositions.ok THEN Err(transpositions.err)
       ELSE Ok([index \in TableRange(d) |->
                  IF transpositions.ts = <<>> THEN index
                  ELSE Transpose(Head(transpositions.ts), index)])

transposition_table(d, operations) ==
    LET transpositions == CollectTranspositions(d, operations)
    IN IF ~transpositions.ok THEN Err(transpositions.err)
       ELSE Ok([index \in TableRange(d) |-> TransposeAll(transpositions.ts, index)])

\* the sequences over S of length at most n
SeqsUpTo(S, n) == UNION {[1..k -> S] : k \in 0..n}

PossibleValues == {"reverse", "zigzag_x", "zigzag_y"}
OtherName == "mirror"

----------------------------------------------------------------------------
(* Pixels, dimming and colour correction                                   *)

Black == <<0, 0, 0>>

\* as DimChannel, but the product is taken in 8 bits
DimChannelNarrow(channel, d) == (((channel * d) % U8Mod) \div U8Max) % U8Mod

\* one channel of pix_dimmed: ((channel as u16 * dim16) / 0xff) as u8
DimChannel(channel, d) == (((channel * d) % U16Mod) \div U8Max) % U8Mod

Dimmed(pix, d) == <<DimChannel(pix[1], d), DimChannel(pix[2], d), DimChannel(pix[3], d)>>

\* the gamma-style curve of the srgb variant for a channel maximum: monotonic,
\* through (0, 0) and (255, max)
GammaChannel(channel, max) == (channel * channel * max) \div (U8Max * U8Max)

\* Correction::correct
correct(correction, pix) ==
    IF correction = "none" THEN pix
    ELSE <<GammaChannel(pix[1], U8Max), GammaChannel(pix[2], U8Max),
           GammaChannel(pix[3], U8Max)>>

\* the input delivers these RGB24 triples, over and over
InputPattern ==
    <<(<<10, 20, 30>>), (<<40, 50, 60>>), (<<70, 80, 90>>), (<<100, 110, 120>>),
      (<<255, 255, 255>>)>>

\* Pixel::read_rgb24 on the k-th triple of the input (k from 0)
InputPixel(k) == InputPattern[(k % Len(InputPattern)) + 1]

DimValues == {0, 128, 255}
NoInterval == -1
NoSleep == -1
NoElapsed == -1

\* a slot that no frame has been published to, and a sample without data
EmptySlot == [seq |-> 0, stamp |-> 0, frame |-> <<>>]
NoData == [input |-> 0, seq |-> 0, frame |-> <<>>]

----------------------------------------------------------------------------
(* The variables of the other specifications, at rest                      *)

TableIdle ==
    /\ t_dimensions = One(1) /\ t_operations = <<>> /\ t_result = Err("") /\ t_pc = "idle"
DimIdle == d_channel = 0 /\ d_dim = 0 /\ d_result = 0 /\ d_pc = "idle"
DiscIdle ==
    /\ a_pc = "idle" /\ s_pc = "idle" /\ chan = "empty" /\ tx_alive = FALSE
    /\ discovered = {} /\ printed = <<>> /\ replies = 0 /\ spinner = 0
    /\ late_spin = FALSE /\ a_result = "none"
MuxIdle ==
    /\ m_n = 1 /\ m_eof = "Close" /\ m_avail = <<0>> /\ m_made = <<0>>
    /\ m_cursor = 1 /\ m_pc = "off" /\ m_calls = 0 /\ m_result = "none"
    /\ m_log = <<>> /\ m_saw_eof = <<FALSE>> /\ m_late_read = FALSE
    /\ m_after_eof = FALSE
AllIdle ==
    /\ q_n = 1 /\ q_left = <<0>> /\ q_count = <<0>> /\ q_slot = <<EmptySlot>>
    /\ q_clock = 0 /\ q_since = <<0>> /\ q_samples = 0 /\ q_sample = NoData
    /\ q_dropped = FALSE
MainIdle ==
    /\ dimensions = One(1) /\ transpose = <<>> /\ dim = 0
    /\ color_correction = "none" /\ frame_interval = NoInterval
    /\ single_frame = FALSE /\ pc = "idle" /\ exit = ""
    /\ output_open = FALSE /\ input_open = FALSE /\ transposition = Err("")
    /\ ticks = 0 /\ sleeps = 0 /\ elapsed = NoElapsed /\ last_sleep = NoSleep
    /\ last_result = "none"
    /\ i = 0 /\ buffer = NoTable /\ frame_in = <<>> /\ consumed = 0
    /\ tick_writes = 0 /\ tick_flushes = 0 /\ written = NoTable
    /\ written_at = 0 /\ frames_out = 0

----------------------------------------------------------------------------
(* main (main.rs 202-354) and pipe_frame (main.rs 356-384)                 *)

MainInit ==
    /\ dimensions \in {One(n) : n \in 1..MaxPixels}
                      \cup {Two(x, y) : x \in 1..MaxSide, y \in 1..MaxSide}
    /\ transpose \in SeqsUpTo(PossibleValues, MaxChain)
    /\ dim \in DimValues
    /\ color_correction \in {"none", "srgb"}
    /\ single_frame \in BOOLEAN
    /\ frame_interval \in {NoInterval} \cup (0..MaxInterval)
    /\ single_frame => frame_interval = NoInterval   \* --one conflicts with --framerate
    /\ pc = "open_output" /\ exit = ""
    /\ output_open = FALSE /\ input_open = FALSE /\ transposition = Err("")
    /\ ticks = 0 /\ sleeps = 0 /\ elapsed = NoElapsed /\ last_sleep = NoSleep
    /\ last_result = "none"
    /\ i = 0 /\ buffer = NoTable /\ frame_in = <<>> /\ consumed = 0
    /\ tick_writes = 0 /\ tick_flushes = 0 /\ written = NoTable
    /\ written_at = 0 /\ frames_out = 0

configVars == <<dimensions, transpose, dim, color_correction, frame_interval, single_frame>>
pipeVars == <<i, buffer, frame_in>>
sinkVars == <<tick_writes, tick_flushes, written, written_at, frames_out>>
loopVars == <<ticks, sleeps, elapsed, last_sleep, last_result>>
otherVars == <<tableVars, dimVars, discVars, muxVars, allVars>>

\* the output is opened: the Art-Net sink, or the output file through its driver
OpenOutput ==
    /\ pc = "open_output"
    /\ \/ /\ output_open' = TRUE
          /\ pc' = "table"
          /\ exit' = exit
       \/ /\ output_open' = output_open
          /\ pc' = "done"
          /\ exit' = "output_error"
    /\ UNCHANGED <<configVars, input_open, transposition, loopVars, pipeVars,
                   consumed, sinkVars, otherVars>>

\* let transposition = match transposition_table(&dimensions, transpose) {..}
BuildTable ==
    /\ pc = "table"
    /\ transposition' = transposition_table(dimensions, transpose)
    /\ IF transposition'.ok
       THEN pc' = "open_input" /\ exit' = exit
       ELSE pc' = "done" /\ exit' = "config_error"
    /\ UNCHANGED <<configVars, output_open, input_open, loopVars, pipeVars,
                   consumed, sinkVars, otherVars>>

\* select::Reader::from_files(..).unwrap()
OpenInput ==
    /\ pc = "open_input"
    /\ \/ /\ input_open' = TRUE
          /\ pc' = "run"
          /\ exit' = exit
       \/ /\ input_open' = input_open
          /\ pc' = "done"
          /\ exit' = "input_error"
    /\ UNCHANGED <<configVars, output_open, transposition, loopVars, pipeVars,
                   consumed, sinkVars, otherVars>>

IsErr(result) == result \in {"read_error", "write_error", "flush_error"}

\* as AfterFrame, but the loop ignores the result of pipe_frame
AfterFrameKeepsGoing(result) ==
    IF single_frame THEN "done" ELSE "pace"

\* as AfterFrame, but single-shot mode is not told apart from the loop
AfterFrameLoops(result) ==
    IF IsErr(result) THEN "done" ELSE "pace"

\* where main goes when pipe_frame returns
AfterFrame(result) ==
    IF single_frame \/ IsErr(result) THEN "done" ELSE "pace"

\* pipe_frame returns to main
PipeFrameReturn(result) ==
    /\ last_result' = result
    /\ pc' = AfterFrame(result)
    /\ exit' = IF pc' = "done" THEN "finished" ELSE exit

\* the call of pipe_frame: the buffer is allocated and filled with black
PipeFrameCall ==
    /\ pc = "run"
    /\ ticks' = ticks + 1
    /\ buffer' = [k \in 0 .. (size(dimensions) - 1) |-> Black]
    /\ i' = 0
    /\ frame_in' = <<>>
    /\ tick_writes' = 0
    /\ tick_flushes' = 0
    /\ pc' = "read"
    /\ UNCHANGED <<configVars, exit, output_open, input_open, transposition,
                   sleeps, elapsed, last_sleep, last_result, consumed, written,
                   written_at, frames_out, otherVars>>

\* as OnReadError, but the error of the read is dropped
OnReadErrorGoOn == "write"

\* where pipe_frame goes when reading pixel i failed
OnReadError == "return"

\* as Placement, but the pixel is stored in input order
PlacementAtIndex(index) == index

\* the slot of the buffer that pixel i is stored in
Placement(index) == transposition.v[index]

\* one iteration of the for loop: read, dim, correct, place
ReadPixel ==
    /\ pc = "read"
    /\ i < size(dimensions)
    /\ \/ /\ consumed < MaxInput
          /\ LET pix_in == InputPixel(consumed)
                 pix_dimmed == Dimmed(pix_in, dim)
                 pix_corrected == correct(color_correction, pix_dimmed)
             IN /\ buffer' = [buffer EXCEPT ![Placement(i)] = pix_corrected]
                /\ frame_in' = Append(frame_in, pix_in)
          /\ consumed' = consumed + 1
          /\ i' = i + 1
          /\ pc' = IF i' < size(dimensions) THEN "read" ELSE "write"
          /\ UNCHANGED <<exit, last_result>>
       \/ /\ IF OnReadError = "return"
             THEN PipeFrameReturn("read_error")
             ELSE pc' = "write" /\ UNCHANGED <<exit, last_result>>
          /\ UNCHANGED <<pipeVars, consumed>>
    /\ UNCHANGED <<configVars, output_open, input_open, transposition, ticks,
                   sleeps, elapsed, last_sleep, sinkVars, otherVars>>

\* as OnWriteError, but the sink is flushed after a failed write
OnWriteErrorGoOn == "flush"

\* where pipe_frame goes when write_frame failed
OnWriteError == "return"

\* dev.write_frame(&mut output, &buffer)?
WriteFrame ==
    /\ pc = "write"
    /\ tick_writes' = tick_writes + 1
    /\ written' = buffer
    /\ written_at' = i
    /\ \/ pc' = "flush" /\ UNCHANGED <<exit, last_result>>
       \/ IF OnWriteError = "return"
          THEN PipeFrameReturn("write_error")
          ELSE pc' = "flush" /\ last_result' = "write_error" /\ exit' = exit
    /\ UNCHANGED <<configVars, output_open, input_open, transposition, ticks,
                   sleeps, elapsed, last_sleep, pipeVars, consumed, tick_flushes,
                   frames_out, otherVars>>

\* output.flush()
Flush ==
    /\ pc = "flush"
    /\ tick_flushes' = tick_flushes + 1
    /\ \/ frames_out' = frames_out + 1 /\ PipeFrameReturn("ok")
       \/ frames_out' = frames_out /\ PipeFrameReturn("flush_error")
    /\ UNCHANGED <<configVars, output_open, input_open, transposition, ticks,
                   sleeps, elapsed, last_sleep, pipeVars, consumed, tick_writes, written,
                   written_at, otherVars>>

\* as SleepsFor, but without the comparison
SleepsAlways(interval, el) == TRUE

\* whether the loop sleeps after a tick that took el
SleepsFor(interval, el) == interval >= el

\* the rate limiting after a successful tick of the loop
Pace ==
    /\ pc = "pace"
    /\ IF frame_interval = NoInterval
       THEN sleeps' = sleeps /\ last_sleep' = NoSleep /\ elapsed' = NoElapsed
       ELSE \E el \in 0..MaxElapsed :
              /\ elapsed' = el
              /\ IF SleepsFor(frame_interval, el)
                 THEN sleeps' = sleeps + 1 /\ last_sleep' = frame_interval - el
                 ELSE sleeps' = sleeps /\ last_sleep' = NoSleep
    /\ pc' = "run"
    /\ UNCHANGED <<configVars, exit, output_open, input_open, transposition,
                   ticks, last_result, pipeVars, consumed, sinkVars, otherVars>>

Init == MainInit /\ TableIdle /\ DimIdle /\ DiscIdle /\ MuxIdle /\ AllIdle

Next ==
    \/ OpenOutput
    \/ BuildTable
    \/ OpenInput
    \/ PipeFrameCall
    \/ ReadPixel
    \/ WriteFrame
    \/ Flush
    \/ Pace

Spec == Init /\ [][Next]_vars

----------------------------------------------------------------------------
(* Properties of main and pipe_frame, under Spec                           *)

num_pixels == size(dimensions)

\* C1: the sink never receives a partial frame. write_frame is called only
\* once all num_pixels pixels of the tick have been read and placed; a tick in
\* which the read of some pixel failed calls neither write_frame nor flush,
\* and returns the read error.
C1_NoPartialFrame ==
    /\ tick_writes > 0 =>
          /\ written_at = num_pixels
          /\ Len(frame_in) = num_pixels
          /\ i = num_pixels
    /\ (ticks > 0 /\ pc \notin {"read", "write", "flush"} /\ Len(frame_in) < num_pixels) =>
          /\ tick_writes = 0
          /\ tick_flushes = 0
          /\ last_result = "read_error"
    /\ last_result = "read_error" => (tick_writes = 0 /\ tick_flushes = 0)

\* a tick whose read failed in the middle of the frame has returned
C1_Witness ==
    /\ pc = "done" /\ last_result = "read_error"
    /\ num_pixels = 4 /\ Len(frame_in) = 2
    /\ ticks = 2 /\ frames_out = 1

\* the frame of the end-to-end scenario, as read and as wired
ScenarioInput == <<(<<10, 20, 30>>), (<<40, 50, 60>>), (<<70, 80, 90>>), (<<100, 110, 120>>)>>
ScenarioOutput == <<(<<100, 110, 120>>), (<<70, 80, 90>>), (<<40, 50, 60>>), (<<10, 20, 30>>)>>

\* C2: the buffer handed to the sink holds, at position transposition[k], the
\* corrected dimmed k-th input pixel of the tick, for every k in
\* [0, num_pixels); on 2x2 with [reverse], dim 255 and no correction the
\* scenario's four pixels come out in reverse order.
C2_Placement ==
    /\ tick_writes > 0 =>
          /\ DOMAIN written = 0 .. (num_pixels - 1)
          /\ \A k \in 0 .. (num_pixels - 1) :
                written[transposition.v[k]]
                    = correct(color_correction, Dimmed(frame_in[k + 1], dim))
    /\ ( /\ tick_writes > 0
         /\ dimensions = Two(2, 2) /\ transpose = <<"reverse">>
         /\ dim = 255 /\ color_correction = "none"
         /\ frame_in = ScenarioInput ) =>
          \A k \in 0..3 : written[k] = ScenarioOutput[k + 1]

\* the scenario's frame has been written and flushed
C2_Witness ==
    /\ dimensions = Two(2, 2) /\ transpose = <<"reverse">>
    /\ dim = 255 /\ color_correction = "none"
    /\ frame_in = ScenarioInput
    /\ last_result = "ok" /\ frames_out = 1
    /\ \A k \in 0..3 : written[k] = ScenarioOutput[k + 1]

\* C5: in continuous mode a failed pipe_frame ends the loop. Once a call has
\* returned an error, pipe_frame is not called again and the loop does not
\* sleep: main is done.
C5_FailureEndsLoop ==
    [][ (~single_frame /\ IsErr(last_result)) =>
            (pc = "done" /\ pc' = "done" /\ ticks' = ticks /\ sleeps' = sleeps) ]_vars

\* the loop ended by a write error after two good ticks
C5_Witness ==
    /\ ~single_frame /\ last_result = "write_error" /\ pc = "done"
    /\ ticks = 3 /\ frames_out = 2 /\ sleeps = 2

\* C6: in single-shot mode pipe_frame is called exactly once and main then
\* returns, whether the call succeeded or failed; it is never called a second
\* time and the loop's sleep is never performed.
C6_SingleShot ==
    single_frame =>
        /\ ticks <= 1
        /\ sleeps = 0
        /\ pc /= "pace"
        /\ last_result /= "none" => (pc = "done" /\ exit = "finished" /\ ticks = 1)
        /\ (pc = "done" /\ exit = "finished") => (ticks = 1 /\ last_result /= "none")

\* single-shot mode has written its one frame and main has returned
C6_Witness ==
    /\ single_frame /\ pc = "done" /\ last_result = "ok"
    /\ ticks = 1 /\ frames_out = 1

\* C7: after a successful tick the loop sleeps interval - elapsed when an
\* interval is set and elapsed <= interval, and does not sleep otherwise; a
\* sleep is never negative and never longer than the interval; the sleep
\* counter moves nowhere else.
C7_Pacing ==
    [][ IF pc = "pace"
        THEN /\ last_result = "ok"
             /\ IF frame_interval /= NoInterval /\ elapsed' <= frame_interval
                THEN /\ sleeps' = sleeps + 1
                     /\ last_sleep' = frame_interval - elapsed'
                     /\ 0 <= last_sleep' /\ last_sleep' <= frame_interval
                ELSE /\ sleeps' = sleeps
                     /\ last_sleep' = NoSleep
             /\ frame_interval = NoInterval => elapsed' = NoElapsed
        ELSE sleeps' = sleeps /\ last_sleep' = last_sleep ]_vars

\* a tick took longer than the interval, and the loop went on without a sleep
C7_Witness ==
    /\ pc = "run" /\ ticks = 2 /\ frame_interval = 2 /\ elapsed = 3
    /\ last_sleep = NoSleep /\ sleeps = 1

Zigzags == {"zigzag_x", "zigzag_y"}
HasName(operations, names) == \E k \in DOMAIN operations : operations[k] \in names

\* transposition_table has been called
TableBuilt == pc \notin {"open_output", "table"} /\ exit /= "output_error"

\* C16: within a tick the sink is used in order: write_frame is called at
\* most once and only after the last pixel, flush at most once and only
\* after a write_frame that succeeded; a tick that ran to its end called
\* both exactly once, and a write_frame error is returned with no flush.
C16_SinkOrder ==
    /\ [](/\ tick_writes <= 1 /\ tick_flushes <= tick_writes
          /\ pc = "flush" => (tick_writes = 1 /\ tick_flushes = 0)
          /\ (ticks > 0 /\ pc \in {"pace", "done", "run"}) =>
               /\ last_result = "read_error" => (tick_writes = 0 /\ tick_flushes = 0)
               /\ last_result = "write_error" => (tick_writes = 1 /\ tick_flushes = 0)
               /\ last_result \in {"ok", "flush_error"} =>
                    (tick_writes = 1 /\ tick_flushes = 1))
    /\ [][ /\ tick_flushes' = tick_flushes + 1 =>
                (pc = "flush" /\ tick_writes = 1 /\ last_result' \in {"ok", "flush_error"})
           /\ tick_writes' = tick_writes + 1 =>
                /\ pc = "write" /\ i = size(dimensions) /\ tick_flushes = 0
                /\ \/ pc' = "flush" /\ last_result' = last_result
                   \/ last_result' = "write_error" /\ pc' = "done" ]_vars

\* write_frame failed: it was called once, flush was not called, pipe_frame
\* has returned the error
C16_Witness ==
    /\ last_result = "write_error" /\ pc = "done" /\ ticks = 2
    /\ tick_writes = 1 /\ tick_flushes = 0 /\ frames_out = 1

\* the index in the input stream of the first pixel of the tick under way
TickStart == (ticks - 1) * num_pixels

\* C17: ticks keep the frame alignment of the input: a tick under way has
\* read the pixels from (ticks - 1) * size() on, one after another; the
\* frame handed to the sink on tick k + 1 is made of the input pixels
\* [k * size(), (k + 1) * size()) and of no other; after k successful ticks
\* k * size() pixels have been consumed.
C17_FrameAlignment ==
    ticks > 0 =>
        /\ pc \in {"read", "write", "flush"} =>
              /\ Len(frame_in) = i
              /\ consumed = TickStart + i
              /\ \A j \in 0 .. (i - 1) : frame_in[j + 1] = InputPixel(TickStart + j)
        /\ (tick_writes = 1 /\ pc \in {"flush", "pace", "run", "done"}) =>
              /\ written_at = num_pixels
              /\ \A j \in 0 .. (num_pixels - 1) :
                    written[Placement(j)] =
                        correct(color_correction, Dimmed(InputPixel(TickStart + j), dim))
        /\ (pc \in {"pace", "run"} \/ (pc = "done" /\ last_result = "ok")) =>
              /\ frames_out = ticks
              /\ consumed = ticks * num_pixels

\* the second tick of a loop over frames of two pixels has handed its frame,
\* made of input pixels 2 and 3, to the sink
C17_Witness ==
    /\ ticks = 2 /\ num_pixels = 2 /\ pc = "flush" /\ frames_out = 1
    /\ frame_in = <<InputPixel(2), InputPixel(3)>>
    /\ consumed = 4 /\ dim = 255 /\ transpose = <<"reverse">>
    /\ written[1] = correct(color_correction, InputPixel(2))

\* C8: a zigzag requested on 1-D dimensions makes transposition_table fail
\* with the configuration error, wherever it stands in the chain; main then
\* returns without a frame processed. A chain with a name that is no
\* transform fails too.
C8_ZigzagNeeds2D ==
    /\ (TableBuilt /\ dimensions.kind = "One" /\ HasName(transpose, Zigzags)) =>
          /\ ~transposition.ok
          /\ transposition.err = ZigzagError
          /\ pc = "done" /\ exit = "config_error"
          /\ ticks = 0 /\ consumed = 0 /\ tick_writes = 0 /\ frames_out = 0
          /\ ~input_open
    /\ pc = "table" =>
          \A operations \in SeqsUpTo(PossibleValues \cup {OtherName}, MaxChain) :
             LET result == transposition_table(dimensions, operations)
             IN /\ HasName(operations, {OtherName}) => ~result.ok
                /\ (dimensions.kind = "One" /\ HasName(operations, Zigzags)) => ~result.ok
                /\ ~result.ok => result.err \in {ZigzagError, UnknownError}

\* main has returned with the configuration error for a zigzag that stands
\* after a reverse on 1-D dimensions
C8_Witness ==
    /\ dimensions = One(3) /\ transpose = <<"reverse", "zigzag_y">>
    /\ pc = "done" /\ exit = "config_error" /\ transposition = Err(ZigzagError)

\* C9: when transposition_table rejects the configuration, no output and no
\* input has been opened.
C9_NoIOBeforeConfigError ==
    exit = "config_error" => (~output_open /\ ~input_open)

----------------------------------------------------------------------------
(* transposition_table on its own: every pair of arguments within the       *)
(* bounds, names that are no transform included                            *)

TableInit ==
    /\ t_dimensions \in {One(n) : n \in 1..TMaxPixels}
                        \cup {Two(x, y) : x \in 1..TMaxSide, y \in 1..TMaxSide}
    /\ t_operations \in SeqsUpTo(PossibleValues \cup {OtherName}, TMaxChain)
    /\ t_result = Err("")
    /\ t_pc = "call"

TableCall ==
    /\ t_pc = "call"
    /\ t_result' = transposition_table(t_dimensions, t_operations)
    /\ t_pc' = "returned"
    /\ UNCHANGED <<t_dimensions, t_operations, mainVars, dimVars, discVars,
                   muxVars, allVars>>

InitTable == TableInit /\ MainIdle /\ DimIdle /\ DiscIdle /\ MuxIdle /\ AllIdle
NextTable == TableCall
SpecTable == InitTable /\ [][NextTable]_vars

\* C3: a table that transposition_table returns has length size() and is a
\* bijection on [0, size()): every destination index occurs, none twice.
C3_Bijection ==
    (t_pc = "returned" /\ t_result.ok) =>
        LET n == size(t_dimensions)
            table == t_result.v
        IN /\ DOMAIN table = 0 .. (n - 1)
           /\ \A k \in DOMAIN table : table[k] \in 0 .. (n - 1)
           /\ \A j \in 0 .. (n - 1) : Cardinality({k \in DOMAIN table : table[k] = j}) = 1

\* the table of a 3x4 grid for a chain of all three transforms, which sends
\* the first pixel to slot 9
C3_Witness ==
    /\ t_pc = "returned" /\ t_result.ok
    /\ t_dimensions = Two(3, 4)
    /\ t_operations = <<"zigzag_y", "reverse", "zigzag_x">>
    /\ t_result.v[0] = 9

----------------------------------------------------------------------------
(* The dim arithmetic on its own: every channel value and every dim        *)

DimInit ==
    /\ d_channel \in 0..U8Max
    /\ d_dim \in 0..U8Max
    /\ d_result = 0
    /\ d_pc = "call"

DimApply ==
    /\ d_pc = "call"
    /\ d_result' = DimChannel(d_channel, d_dim)
    /\ d_pc' = "done"
    /\ UNCHANGED <<d_channel, d_dim, mainVars, tableVars, discVars, muxVars,
                   allVars>>

InitDim == DimInit /\ MainIdle /\ TableIdle /\ DiscIdle /\ MuxIdle /\ AllIdle
NextDim == DimApply
SpecDim == InitDim /\ [][NextDim]_vars

\* C4: the dimmed channel is floor(channel * dim / 255); dim 0 gives 0, dim
\* 255 gives the channel back, and the result does not decrease when the
\* channel or dim grows; white dimmed by 128 is (128, 128, 128).
C4_DimScaling ==
    d_pc = "done" =>
        /\ d_result * U8Max <= d_channel * d_dim
        /\ d_channel * d_dim < (d_result + 1) * U8Max
        /\ d_dim = 0 => d_result = 0
        /\ d_dim = U8Max => d_result = d_channel
        /\ d_channel < U8Max => d_result <= DimChannel(d_channel + 1, d_dim)
        /\ d_dim < U8Max => d_result <= DimChannel(d_channel, d_dim + 1)
        /\ (d_channel = 255 /\ d_dim = 128) =>
              /\ d_result = 128
              /\ correct("none", Dimmed(<<255, 255, 255>>, d_dim)) = <<128, 128, 128>>

\* white has been dimmed by 128
C4_Witness == d_pc = "done" /\ d_channel = 255 /\ d_dim = 128 /\ d_result = 128

\* C19: the dim arithmetic neither overflows nor truncates. For every channel
\* and every dim of 0..255 the product fits the 16-bit intermediate (it is at
\* most 65025), the quotient by 255 fits 8 bits, so both narrowings keep the
\* value, and the dimmed channel is no brighter than the channel read.
C19_DimNoOverflow ==
    d_pc = "done" =>
        /\ d_channel * d_dim <= 65025
        /\ 65025 < U16Mod
        /\ (d_channel * d_dim) % U16Mod = d_channel * d_dim
        /\ (d_channel * d_dim) \div U8Max <= U8Max
        /\ ((d_channel * d_dim) \div U8Max) % U8Mod = (d_channel * d_dim) \div U8Max
        /\ d_result = (d_channel * d_dim) \div U8Max
        /\ d_result <= d_channel

\* the largest product: full white at full brightness stays 255
C19_Witness == d_pc = "done" /\ d_channel = 255 /\ d_dim = 255 /\ d_result = 255

----------------------------------------------------------------------------
(* artnet_discover (main.rs 416-452): the scanning thread and the          *)
(* progress-indicator thread it spawns                                     *)

NodeAddrs == {"10.0.0.1", "10.0.0.2"}
NodeNames == {"", "par-1"}      \* "" is a reply without a name

DiscInit ==
    /\ a_pc = "spawn" /\ s_pc = "idle" /\ chan = "empty" /\ tx_alive = FALSE
    /\ discovered = {} /\ printed = <<>> /\ replies = 0 /\ spinner = 0
    /\ late_spin = FALSE /\ a_result = "none"

\* the process is running: the main thread has neither returned from main
\* nor panicked
ProcessAlive == a_pc \notin {"exited", "panicked"}

\* the stream, the set and the channel are made and the thread is spawned
DiscSpawn ==
    /\ a_pc = "spawn"
    /\ a_pc' = "next"
    /\ s_pc' = "try_recv"
    /\ tx_alive' = TRUE
    /\ UNCHANGED <<chan, discovered, printed, replies, spinner, late_spin,
                   a_result, mainVars, tableVars, dimVars, muxVars, allVars>>

\* as IsNew, but without the look-up in the set
IsNewAlways(addr) == TRUE

\* !discovered.contains(&node.0)
IsNew(addr) == addr \notin discovered

\* the stream yields Ok(node): the node is printed if it is new, and inserted
ScanReply ==
    /\ a_pc = "next"
    /\ replies < MaxReplies
    /\ \E addr \in NodeAddrs, name \in NodeNames :
          /\ printed' = IF IsNew(addr)
                        THEN Append(printed, [addr |-> addr, name |-> name])
                        ELSE printed
          /\ discovered' = discovered \cup {addr}
    /\ replies' = replies + 1
    /\ UNCHANGED <<a_pc, s_pc, chan, tx_alive, spinner, late_spin, a_result,
                   mainVars, tableVars, dimVars, muxVars, allVars>>

\* the stream yields Err(err): the stop signal is to be sent
ScanError ==
    /\ a_pc = "next"
    /\ a_pc' = "send"
    /\ UNCHANGED <<s_pc, chan, tx_alive, discovered, printed, replies, spinner,
                   late_spin, a_result, mainVars, tableVars, dimVars, muxVars, allVars>>

\* what the scanning thread does when the stream ends
OnStreamEnd == "return"

\* the stream ends: the for loop is left and Ok(()) returned, close_tx dropped
ScanEnd ==
    /\ a_pc = "next"
    /\ IF OnStreamEnd = "return"
       THEN a_pc' = "returned" /\ a_result' = "ok" /\ tx_alive' = FALSE
       ELSE a_pc' = "send" /\ UNCHANGED <<a_result, tx_alive>>
    /\ UNCHANGED <<s_pc, chan, discovered, printed, replies, spinner,
                   late_spin, mainVars, tableVars, dimVars, muxVars, allVars>>

\* as ChannelCapacity, but the channel has room for the stop signal
ChannelCapacityOne == Len(<<"stop">>)

\* sync_channel(0): the channel is a rendezvous, it holds no signal
ChannelCapacity == 0

\* close_tx.send(()): the signal is offered and the sender blocks, a channel
\* with room would take the signal and let the sender go on to return
\* Err(err); with the receiver gone the send fails and unwrap panics
SendOffer ==
    /\ a_pc = "send"
    /\ IF s_pc = "panicked"
       THEN a_pc' = "panicked" /\ chan' = chan /\ UNCHANGED <<a_result, tx_alive>>
       ELSE IF ChannelCapacity = 0
       THEN a_pc' = "sending" /\ chan' = "offered" /\ UNCHANGED <<a_result, tx_alive>>
       ELSE /\ a_pc' = "returned" /\ chan' = "offered"
            /\ a_result' = "err" /\ tx_alive' = FALSE
    /\ UNCHANGED <<s_pc, discovered, printed, replies, spinner,
                   late_spin, mainVars, tableVars, dimVars, muxVars, allVars>>

\* the blocked send returns: the signal has been taken, Err(err) is returned
SendDone ==
    /\ a_pc = "sending"
    /\ chan = "taken"
    /\ a_pc' = "returned"
    /\ a_result' = "err"
    /\ tx_alive' = FALSE
    /\ UNCHANGED <<s_pc, chan, discovered, printed, replies, spinner,
                   late_spin, mainVars, tableVars, dimVars, muxVars, allVars>>

\* the blocked send fails: the receiver was dropped before it took the signal
SendFail ==
    /\ a_pc = "sending"
    /\ chan = "offered"
    /\ s_pc = "panicked"
    /\ a_pc' = "panicked"
    /\ UNCHANGED <<s_pc, chan, tx_alive, discovered, printed, replies, spinner,
                   late_spin, a_result, mainVars, tableVars, dimVars, muxVars, allVars>>

\* main returns after artnet_discover (main.rs 195-199): the process ends
MainExit ==
    /\ a_pc = "returned"
    /\ a_pc' = "exited"
    /\ UNCHANGED <<s_pc, chan, tx_alive, discovered, printed, replies, spinner,
                   late_spin, a_result, mainVars, tableVars, dimVars, muxVars, allVars>>

\* close_rx.try_recv(): Ok only if a sender is waiting; Empty and
\* Disconnected both let the loop go on
TryRecv ==
    /\ ProcessAlive
    /\ s_pc = "try_recv"
    /\ IF chan = "offered"
       THEN chan' = "taken" /\ s_pc' = "stopped"
       ELSE chan' = chan /\ s_pc' = "write"
    /\ UNCHANGED <<a_pc, tx_alive, discovered, printed, replies, spinner,
                   late_spin, a_result, mainVars, tableVars, dimVars, muxVars, allVars>>

\* write!(..).unwrap() and flush().unwrap(): a spinner character, or a panic
\* of the indicator thread when stderr cannot be written
SpinWrite ==
    /\ ProcessAlive
    /\ s_pc = "write"
    /\ \/ /\ spinner' = (spinner + 1) % SpinnerChars
          /\ late_spin' = (late_spin \/ a_pc = "returned")
          /\ s_pc' = "sleep"
       \/ /\ s_pc' = "panicked"
          /\ UNCHANGED <<spinner, late_spin>>
    /\ UNCHANGED <<a_pc, chan, tx_alive, discovered, printed, replies,
                   a_result, mainVars, tableVars, dimVars, muxVars, allVars>>

\* thread::sleep of the indicator
SpinSleep ==
    /\ ProcessAlive
    /\ s_pc = "sleep"
    /\ s_pc' = "try_recv"
    /\ UNCHANGED <<a_pc, chan, tx_alive, discovered, printed, replies, spinner,
                   late_spin, a_result, mainVars, tableVars, dimVars, muxVars, allVars>>

InitDisc == DiscInit /\ MainIdle /\ TableIdle /\ DimIdle /\ MuxIdle /\ AllIdle
NextDisc ==
    \/ DiscSpawn
    \/ ScanReply
    \/ ScanError
    \/ ScanEnd
    \/ SendOffer
    \/ SendDone
    \/ SendFail
    \/ MainExit
    \/ TryRecv
    \/ SpinWrite
    \/ SpinSleep
SpecDisc == InitDisc /\ [][NextDisc]_vars

\* C10: once the scan loop has ended, by the end of the stream or by a
\* transport error, the stop signal has been sent and the indicator thread has
\* taken it and left its loop before artnet_discover returns.
C10_IndicatorStopped ==
    a_pc \in {"returned", "exited"} => (chan = "taken" /\ s_pc = "stopped")

\* the part of C10 that the code keeps: on the error path the indicator has
\* taken the signal and left its loop before artnet_discover returns
C10_StoppedOnError ==
    (a_pc \in {"returned", "exited"} /\ a_result = "err") =>
        (chan = "taken" /\ s_pc = "stopped")

\* SpecDisc with the scheduling of the two threads: a thread that can take
\* its next step does take it; the indicator only ever waits in thread::sleep
SpecDiscFair ==
    /\ InitDisc /\ [][NextDisc]_vars
    /\ WF_vars(SendOffer) /\ WF_vars(SendDone) /\ WF_vars(SendFail)
    /\ WF_vars(TryRecv) /\ WF_vars(SpinWrite) /\ WF_vars(SpinSleep)

\* C18: on the error path the rendezvous orders the threads and does not
\* deadlock. The send is blocked until the indicator has taken the signal;
\* when artnet_discover has returned the error the indicator has left its
\* loop and writes no spinner character any more; and with an indicator
\* thread that stays alive a send that is begun ends in the return of the
\* error.
C18_ErrorHandoff ==
    /\ [](/\ a_result = "err" => (chan = "taken" /\ s_pc = "stopped" /\ ~late_spin)
          /\ s_pc = "stopped" => (chan = "taken" /\ a_result \in {"none", "err"}))
    /\ [][ /\ a_result = "err" => spinner' = spinner
           /\ (a_result = "none" /\ a_result' = "err") =>
                (a_pc = "sending" /\ chan = "taken" /\ s_pc = "stopped") ]_vars
    /\ (a_pc = "send") ~> (a_result = "err" \/ s_pc = "panicked")

\* the scan failed after the indicator had written spinner characters; the
\* signal was handed over, the indicator stopped and the error was returned
C18_Witness ==
    /\ a_result = "err" /\ a_pc = "exited" /\ s_pc = "stopped"
    /\ chan = "taken" /\ spinner = 2 /\ replies = 1

\* the addresses of the lines printed so far
PrintedAddrs == {printed[k].addr : k \in DOMAIN printed}

\* C11: discovery prints one line per newly seen node. No address is printed
\* twice, the printed addresses are the discovered set, a reply from an
\* address not seen before appends its line, and a repeated reply prints
\* nothing.
C11_OneLinePerNode ==
    /\ [](/\ PrintedAddrs = discovered
          /\ \A j, k \in DOMAIN printed : printed[j].addr = printed[k].addr => j = k
          /\ Len(printed) <= replies)
    /\ [][ /\ replies' = replies =>
                (printed' = printed /\ discovered' = discovered)
           /\ (replies' /= replies /\ discovered' = discovered) => printed' = printed
           /\ (replies' /= replies /\ discovered' /= discovered) =>
                /\ Len(printed') = Len(printed) + 1
                /\ \A k \in DOMAIN printed : printed'[k] = printed[k]
                /\ discovered' = discovered \cup {printed'[Len(printed')].addr}
                /\ printed'[Len(printed')].addr \notin discovered ]_vars

\* one node has replied three times and has one line; the scan then ended
C11_Witness ==
    /\ replies = 3 /\ discovered = {"10.0.0.2"}
    /\ Len(printed) = 1 /\ printed[1].addr = "10.0.0.2"
    /\ a_result = "ok"

\* C12: reverse composed with itself is the identity. The table that
\* transposition_table builds for the chain [reverse, reverse] maps every
\* index of [0, size()) to itself, for 1-D and for 2-D dimensions.
C12_ReverseTwice ==
    (t_pc = "returned" /\ t_operations = <<"reverse", "reverse">>) =>
        /\ t_result.ok
        /\ DOMAIN t_result.v = 0 .. (size(t_dimensions) - 1)
        /\ \A index \in 0 .. (size(t_dimensions) - 1) : t_result.v[index] = index

\* the table of [reverse, reverse] on six pixels has been built
C12_Witness ==
    /\ t_pc = "returned" /\ t_operations = <<"reverse", "reverse">>
    /\ t_dimensions = One(6) /\ t_result.ok
    /\ t_result.v[0] = 0 /\ t_result.v[5] = 5

----------------------------------------------------------------------------
(* select::Reader in Single consume mode (from_files at main.rs 304-321):  *)
(* one read of the pipeline is one RGB24 triple                            *)

\* let input_eof = if matches.is_present("linger") {Retry} else {Close}
EofPolicy(linger) == IF linger THEN "Retry" ELSE "Close"

MuxInit ==
    /\ m_n \in 1..MaxInputs
    /\ m_eof \in {EofPolicy(linger) : linger \in BOOLEAN}
    /\ m_avail \in [1..m_n -> 0..MaxSupply]
    /\ m_made = m_avail
    /\ m_cursor = 1 /\ m_pc = "idle" /\ m_calls = 0 /\ m_result = "none"
    /\ m_log = <<>> /\ m_saw_eof = [k \in 1..m_n |-> FALSE]
    /\ m_late_read = FALSE /\ m_after_eof = FALSE

\* a writer puts one more triple into input k (a pipe that is filled again)
MuxRefill ==
    /\ m_pc \in {"idle", "reading"}
    /\ \E k \in 1..m_n :
          /\ m_made[k] < MaxSupply
          /\ m_made' = [m_made EXCEPT ![k] = @ + 1]
          /\ m_avail' = [m_avail EXCEPT ![k] = @ + 1]
    /\ UNCHANGED <<m_n, m_eof, m_cursor, m_pc, m_calls, m_result, m_log,
                   m_saw_eof, m_late_read, m_after_eof, mainVars, tableVars,
                   dimVars, discVars, allVars>>

\* the pipeline asks the multiplexer for a triple
MuxReadCall ==
    /\ m_pc = "idle"
    /\ m_calls < MaxCalls
    /\ m_pc' = "reading"
    /\ m_calls' = m_calls + 1
    /\ UNCHANGED <<m_n, m_eof, m_avail, m_made, m_cursor, m_result, m_log,
                   m_saw_eof, m_late_read, m_after_eof, mainVars, tableVars,
                   dimVars, discVars, allVars>>

\* as EofAction, but end-of-stream always closes the input
EofActionClose(policy) == "advance"

\* what the multiplexer does when the current input reports end-of-stream
EofAction(policy) == IF policy = "Retry" THEN "retry" ELSE "advance"

\* as NextCursor, but after the last input the first is taken again
NextCursorWrap(cursor) == (cursor % m_n) + 1

\* the input after the current one, in the listed order
NextCursor(cursor) == cursor + 1

\* one step of the read: exhaustion when every input is closed, else a read of
\* the current input, which delivers a triple or reports end-of-stream
MuxReadStep ==
    /\ m_pc = "reading"
    /\ IF m_cursor > m_n
       THEN /\ m_result' = "exhausted"
            /\ m_pc' = "idle"
            /\ UNCHANGED <<m_avail, m_cursor, m_log, m_saw_eof, m_late_read,
                           m_after_eof>>
       ELSE /\ m_late_read' = (m_late_read \/ m_result = "exhausted")
            /\ IF m_avail[m_cursor] > 0
               THEN /\ m_avail' = [m_avail EXCEPT ![m_cursor] = @ - 1]
                    /\ m_result' = "data"
                    /\ m_log' = Append(m_log, m_cursor)
                    /\ m_after_eof' = (m_after_eof \/ m_saw_eof[m_cursor])
                    /\ m_pc' = "idle"
                    /\ UNCHANGED <<m_cursor, m_saw_eof>>
               ELSE /\ m_saw_eof' = [m_saw_eof EXCEPT ![m_cursor] = TRUE]
                    /\ m_cursor' = IF EofAction(m_eof) = "retry"
                                   THEN m_cursor
                                   ELSE NextCursor(m_cursor)
                    /\ UNCHANGED <<m_avail, m_result, m_log, m_after_eof, m_pc>>
    /\ UNCHANGED <<m_n, m_eof, m_made, m_calls, mainVars, tableVars, dimVars,
                   discVars, allVars>>

InitMux == MuxInit /\ MainIdle /\ TableIdle /\ DimIdle /\ DiscIdle /\ AllIdle
NextMux ==
    \/ MuxRefill
    \/ MuxReadCall
    \/ MuxReadStep
SpecMux == InitMux /\ [][NextMux]_vars

\* C13: in Single mode with the Close policy the inputs are consumed in the
\* listed order, the cursor only moves forward and only on end-of-stream of
\* the current input, exhaustion is reported only when every input has
\* reported end-of-stream, a read with every input closed fails with
\* exhaustion, and no input is read after exhaustion has been reported.
C13_CloseExhausts ==
    /\ [](m_eof = "Close" =>
            /\ \A j, k \in DOMAIN m_log : j <= k => m_log[j] <= m_log[k]
            /\ \A k \in 1..m_n : k < m_cursor => m_saw_eof[k]
            /\ m_result = "exhausted" =>
                  (m_cursor = m_n + 1 /\ \A k \in 1..m_n : m_saw_eof[k])
            /\ ~m_late_read)
    /\ [][ m_eof = "Close" =>
             /\ m_cursor' >= m_cursor
             /\ m_cursor' /= m_cursor =>
                  (m_cursor' = m_cursor + 1 /\ m_avail[m_cursor] = 0 /\ m_pc = "reading")
             /\ (m_pc = "reading" /\ m_cursor = m_n + 1 /\ m_pc' = "idle") =>
                  (m_result' = "exhausted" /\ m_log' = m_log /\ m_avail' = m_avail)
             /\ m_result = "exhausted" => (m_result' = "exhausted" /\ m_log' = m_log) ]_vars

\* two inputs were read one after the other, exhaustion was reported, the
\* first input was filled again, and another read reported exhaustion
C13_Witness ==
    /\ m_eof = "Close" /\ m_n = 2 /\ m_log = <<1, 2>>
    /\ m_result = "exhausted" /\ m_calls = 4 /\ m_pc = "idle"
    /\ m_avail[1] = 1

\* C14: in Single mode with the Retry policy end-of-stream is never terminal.
\* Exhaustion is never reported, the cursor never leaves the input it is on,
\* a read returns only with a triple, and an input that has reported
\* end-of-stream and is filled again delivers its triple to the read.
C14_RetryNeverGivesUp ==
    /\ [](m_eof = "Retry" =>
            /\ m_result /= "exhausted"
            /\ m_cursor = 1
            /\ \A k \in DOMAIN m_log : m_log[k] = 1)
    /\ [][ m_eof = "Retry" =>
             /\ m_cursor' = m_cursor
             /\ (m_pc = "reading" /\ m_pc' = "idle") =>
                  (m_result' = "data" /\ m_log' = Append(m_log, m_cursor))
             /\ (m_pc = "reading" /\ m_made' = m_made /\ m_avail[m_cursor] > 0) =>
                  (m_pc' = "idle" /\ m_result' = "data"
                   /\ m_avail'[m_cursor] = m_avail[m_cursor] - 1) ]_vars

\* the input reported end-of-stream while a read was waiting, was filled
\* again, and the read returned the new triple
C14_Witness ==
    /\ m_eof = "Retry" /\ m_after_eof /\ m_saw_eof[1]
    /\ m_result = "data" /\ m_pc = "idle" /\ m_calls = 1 /\ m_log = <<1>>
    /\ m_made[1] = 1

----------------------------------------------------------------------------
(* select::Reader in All consume mode: one reader thread per input, which  *)
(* publishes each decoded frame to its slot, and the pipeline thread,      *)
(* which samples the slots                                                 *)

\* the seq-th frame of input k: two pixels, each tagged with its frame
Frame(k, seq) == <<[input |-> k, seq |-> seq], [input |-> k, seq |-> seq]>>

AllInit ==
    /\ q_n \in 1..MaxInputs
    /\ q_left \in [1..q_n -> 0..MaxSupply]
    /\ q_count = [k \in 1..q_n |-> 0]
    /\ q_slot = [k \in 1..q_n |-> EmptySlot]
    /\ q_clock = 0
    /\ q_since = [k \in 1..q_n |-> 0]
    /\ q_samples = 0 /\ q_sample = NoData /\ q_dropped = FALSE

\* as SlotAfterPublish, but a frame is put into the slot only if it is empty
SlotKeepFirst(old, new) == IF old.seq = 0 THEN new ELSE old

\* the slot after a publish: the new frame takes the place of the old one
SlotAfterPublish(old, new) == new

\* the reader of input k decodes its next frame and publishes it to its slot
AllPublish ==
    /\ \E k \in 1..q_n :
          /\ q_left[k] > 0
          /\ q_left' = [q_left EXCEPT ![k] = @ - 1]
          /\ q_count' = [q_count EXCEPT ![k] = @ + 1]
          /\ q_clock' = q_clock + 1
          /\ q_slot' = [q_slot EXCEPT ![k] =
                          SlotAfterPublish(@, [seq |-> q_count[k] + 1,
                                               stamp |-> q_clock + 1,
                                               frame |-> Frame(k, q_count[k] + 1)])]
          /\ q_since' = [q_since EXCEPT ![k] = @ + 1]
    /\ UNCHANGED <<q_n, q_samples, q_sample, q_dropped, mainVars, tableVars,
                   dimVars, discVars, muxVars>>

\* the slots that hold a frame
Filled == {k \in 1..q_n : q_slot[k].seq > 0}

\* the slot with the most recently published frame
Freshest == CHOOSE k \in Filled : \A j \in Filled : q_slot[j].stamp <= q_slot[k].stamp

\* a tick of the pipeline: the freshest frame over all slots is read, the
\* slots are left as they are; no data when no slot holds a frame
AllSample ==
    /\ q_samples < MaxSamples
    /\ q_samples' = q_samples + 1
    /\ IF Filled = {}
       THEN q_sample' = NoData /\ q_dropped' = FALSE
       ELSE /\ q_sample' = [input |-> Freshest, seq |-> q_slot[Freshest].seq,
                            frame |-> q_slot[Freshest].frame]
            /\ q_dropped' = (q_since[Freshest] >= 2)
    /\ q_since' = [k \in 1..q_n |-> 0]
    /\ UNCHANGED <<q_n, q_left, q_count, q_slot, q_clock, mainVars, tableVars,
                   dimVars, discVars, muxVars>>

InitAll == AllInit /\ MainIdle /\ TableIdle /\ DimIdle /\ DiscIdle /\ MuxIdle
NextAll ==
    \/ AllPublish
    \/ AllSample
SpecAll == InitAll /\ [][NextAll]_vars

\* C15: in All mode a slot holds one frame and a publish overwrites it. Each
\* slot holds the latest frame its input has published, so a sample taken
\* after two publishes of an input shows the second and never the first; a
\* sample is one whole published frame, the freshest over all slots, under
\* every interleaving of the readers and the pipeline; sampling leaves the
\* slots alone.
C15_LatestFrameOnly ==
    /\ [](/\ \A k \in 1..q_n :
               /\ q_slot[k].seq = q_count[k]
               /\ q_count[k] > 0 => q_slot[k].frame = Frame(k, q_count[k])
          /\ q_sample.input /= 0 =>
               q_sample.frame = Frame(q_sample.input, q_sample.seq))
    /\ [][ q_samples' /= q_samples =>
             /\ q_slot' = q_slot
             /\ IF \A k \in 1..q_n : q_count[k] = 0
                THEN q_sample' = NoData
                ELSE /\ q_sample'.input \in 1..q_n
                     /\ q_sample'.seq = q_count[q_sample'.input]
                     /\ q_sample'.frame = Frame(q_sample'.input, q_sample'.seq)
                     /\ \A j \in 1..q_n :
                           q_slot[j].stamp <= q_slot[q_sample'.input].stamp ]_vars

\* input 1 published two frames with no sample in between, and the sample
\* that followed shows the second
C15_Witness ==
    /\ q_n = 2 /\ q_dropped /\ q_samples = 2
    /\ q_sample = [input |-> 1, seq |-> 2, frame |-> Frame(1, 2)]
    /\ q_count[2] = 1

====
